---- MODULE Spec2Model ----
(***************************************************************************)
(* Model of config_qq_adapter.py, the first-run wizard that patches the    *)
(* group_list / private_list whitelists of the adapter's config.toml.      *)
(*                                                                         *)
(* Text is modelled character by character: a string is a sequence of      *)
(* one-character strings, a file is a sequence of lines.  Two characters   *)
(* that cannot be typed in ASCII are named: "U+FF0C" is the full-width     *)
(* comma and "U+3000" is the ideographic space (whitespace for Python's    *)
(* str.strip, str.split and int, but none of the listed separators).       *)
(***************************************************************************)
EXTENDS Integers, Sequences, FiniteSets

VARIABLES
    pc,             \* position of the run (orchestrator state or phase of a pure check)
    disk,           \* the file at the configuration path: [kind, text]
    disk0,          \* the file as it was when the run started (history)
    config,         \* config['chat'], reduced to [group_list, private_list]
    original_lines, \* the raw line buffer read at the start of the run
    new_lines,      \* the lines last handed to writelines
    second_lines,   \* the lines produced by patching new_lines once more
    user_input,     \* the line the operator typed at the current prompt
    qq_list,        \* the list input_qq_list returned
    warnings,       \* number of warnings input_qq_list printed
    event,          \* what the last console read produced
    msg,            \* the final message main printed
    exit_status,    \* the process exit status, -1 while running
    hist,           \* outcomes of the steps taken so far (history)
    reads,          \* number of attempts to open the file for reading (history)
    prompts,        \* number of prompts shown (history)
    writes          \* number of times the file was opened for writing (history)

vars == <<pc, disk, disk0, config, original_lines, new_lines, second_lines,
          user_input, qq_list, warnings, event, msg, exit_status, hist,
          reads, prompts, writes>>

(***************************************************************************)
(* Bounds of the model.                                                    *)
(***************************************************************************)
MaxLines == 3
MaxInput == 4
MaxTyped == 2

(***************************************************************************)
(* Characters and Python's string primitives.                              *)
(***************************************************************************)
\* the characters str.strip / str.lstrip / str.split() treat as whitespace
Whitespace == {" ", "\t", "\n", "U+3000"}

RECURSIVE LStrip(_)
LStrip(s) ==
    IF s # <<>> /\ Head(s) \in Whitespace THEN LStrip(Tail(s)) ELSE s

RECURSIVE RStrip(_)
RStrip(s) ==
    IF s # <<>> /\ s[Len(s)] \in Whitespace
    THEN RStrip(SubSeq(s, 1, Len(s) - 1))
    ELSE s

Strip(s) == RStrip(LStrip(s))

StartsWith(s, c) == s # <<>> /\ s[1] = c

EndsWith(s, c) == s # <<>> /\ s[Len(s)] = c

Contains(s, c) == \E i \in 1..Len(s) : s[i] = c

\* s.split(c)[0]: the text before the first c, the whole of s when c is absent
RECURSIVE SplitFirst(_, _)
SplitFirst(s, c) ==
    IF s = <<>> \/ Head(s) = c THEN <<>>
    ELSE <<Head(s)>> \o SplitFirst(Tail(s), c)

\* ' ' * n
RECURSIVE Spaces(_)
Spaces(n) == IF n <= 0 THEN <<>> ELSE <<" ">> \o Spaces(n - 1)

DigitChars == <<"0", "1", "2", "3", "4", "5", "6", "7", "8", "9">>

\* str(n) for n >= 0
RECURSIVE IntToStr(_)
IntToStr(n) ==
    IF n < 10 THEN <<DigitChars[n + 1]>>
    ELSE IntToStr(n \div 10) \o <<DigitChars[(n % 10) + 1]>>

\* ", ".join(str(x) for x in lst)
RECURSIVE JoinInts(_)
JoinInts(lst) ==
    IF lst = <<>> THEN <<>>
    ELSE IF Len(lst) = 1 THEN IntToStr(lst[1])
    ELSE IntToStr(lst[1]) \o <<",", " ">> \o JoinInts(Tail(lst))

\* f'{lst}' for a list of non-negative integers
ListRepr(lst) == <<"[">> \o JoinInts(lst) \o <<"]">>

(***************************************************************************)
(* The names the patcher compares with.                                    *)
(***************************************************************************)
chat == <<"c", "h", "a", "t">>
group_list == <<"g", "r", "o", "u", "p", "_", "l", "i", "s", "t">>
private_list == <<"p", "r", "i", "v", "a", "t", "e", "_", "l", "i", "s", "t">>

(***************************************************************************)
(* update_config_preserve_comments: the scan of the raw line buffer.       *)
(***************************************************************************)
\* in_section = None
NoSection == [some |-> FALSE, name |-> <<>>]

\* the test that takes a line for a section header
IsSectionLine(stripped) == StartsWith(stripped, "[") /\ EndsWith(stripped, "]")

\* in_section after a header line: stripped[1:-1].strip()
SectionName(stripped) ==
    [some |-> TRUE, name |-> Strip(SubSeq(stripped, 2, Len(stripped) - 1))]

\* the truth value of in_section: None and '' are false
Truthy(in_section) == in_section.some /\ in_section.name # <<>>

\* lines that are kept as comments or blank lines
IsCommentOrBlank(stripped) == StartsWith(stripped, "#") \/ stripped = <<>>

\* key = line.split('=')[0].strip()
KeyOf(line) == Strip(SplitFirst(line, "="))

\* variant: strip() where the code calls lstrip()
Indent_strip_both(line) == Len(line) - Len(Strip(line))

\* indent = len(line) - len(line.lstrip())
Indent(line) == Len(line) - Len(LStrip(line))

\* ' ' * indent + f'{key} = {value}\n'
Replacement(line, key, value) ==
    Spaces(Indent(line)) \o key \o <<" ", "=", " ">> \o ListRepr(value) \o <<"\n">>

\* what one line of the buffer becomes, given the section cursor before it
PatchLine(line, in_section, cfg) ==
    LET stripped == Strip(line) IN
    IF IsSectionLine(stripped) THEN line
    ELSE IF IsCommentOrBlank(stripped) THEN line
    ELSE IF Contains(line, "=") /\ Truthy(in_section) /\ in_section.name = chat
         THEN IF KeyOf(line) = group_list
              THEN Replacement(line, group_list, cfg.group_list)
              ELSE IF KeyOf(line) = private_list
                   THEN Replacement(line, private_list, cfg.private_list)
                   ELSE line
         ELSE line

\* the section cursor after a line
NextSection(line, in_section) ==
    LET stripped == Strip(line) IN
    IF IsSectionLine(stripped) THEN SectionName(stripped) ELSE in_section

\* the for loop: new_lines for the lines still to scan
RECURSIVE PatchFrom(_, _, _)
PatchFrom(lines, in_section, cfg) ==
    IF lines = <<>> THEN <<>>
    ELSE <<PatchLine(Head(lines), in_section, cfg)>>
         \o PatchFrom(Tail(lines), NextSection(Head(lines), in_section), cfg)

\* new_lines as update_config_preserve_comments builds it
PatchLines(lines, cfg) == PatchFrom(lines, NoSection, cfg)

(***************************************************************************)
(* The file on disk: open(..., 'w').writelines and open(..., 'r').readlines*)
(* The alphabet holds no carriage return, so newline translation is the    *)
(* identity here.                                                          *)
(***************************************************************************)
\* f.writelines(lines): the text is the concatenation of the lines
RECURSIVE WriteLines(_)
WriteLines(lines) ==
    IF lines = <<>> THEN <<>> ELSE Head(lines) \o WriteLines(Tail(lines))

\* f.readlines(): cut the text after every newline; cur is the line being read
RECURSIVE ReadLinesFrom(_, _)
ReadLinesFrom(text, cur) ==
    IF text = <<>> THEN (IF cur = <<>> THEN <<>> ELSE <<cur>>)
    ELSE IF Head(text) = "\n"
         THEN <<cur \o <<"\n">> >> \o ReadLinesFrom(Tail(text), <<>>)
         ELSE ReadLinesFrom(Tail(text), cur \o <<Head(text)>>)

ReadLines(text) == ReadLinesFrom(text, <<>>)

Missing == [kind |-> "missing", text |-> <<>>]
Directory == [kind |-> "dir", text |-> <<>>]
FileOf(lines) == [kind |-> "file", text |-> WriteLines(lines)]

\* variant: the existence test left out
Exists_unchecked(d) == TRUE

\* config_path.exists()
Exists(d) == d.kind # "missing"

(***************************************************************************)
(* input_qq_list: tokenizing and parsing one line of operator input.       *)
(***************************************************************************)
\* separators = [',', '，', ' ', '\t']
separators == {",", "U+FF0C", " ", "\t"}

\* for sep in separators: user_input = user_input.replace(sep, ' ')
RECURSIVE ReplaceSeparators(_)
ReplaceSeparators(s) ==
    IF s = <<>> THEN <<>>
    ELSE <<IF Head(s) \in separators THEN " " ELSE Head(s)>>
         \o ReplaceSeparators(Tail(s))

\* s.split(): the maximal runs of characters that are not whitespace
RECURSIVE SplitFrom(_, _)
SplitFrom(s, cur) ==
    IF s = <<>> THEN (IF cur = <<>> THEN <<>> ELSE <<cur>>)
    ELSE IF Head(s) \in Whitespace
         THEN (IF cur = <<>> THEN <<>> ELSE <<cur>>) \o SplitFrom(Tail(s), <<>>)
         ELSE SplitFrom(Tail(s), cur \o <<Head(s)>>)

Split(s) == SplitFrom(s, <<>>)

IsDigit(c) == \E d \in 1..10 : DigitChars[d] = c

DigitValue(c) == (CHOOSE d \in 1..10 : DigitChars[d] = c) - 1

\* the value of a run of digits and underscores, acc being the value so far
RECURSIVE DigitsValue(_, _)
DigitsValue(s, acc) ==
    IF s = <<>> THEN acc
    ELSE IF Head(s) = "_" THEN DigitsValue(Tail(s), acc)
    ELSE DigitsValue(Tail(s), acc * 10 + DigitValue(Head(s)))

\* the digits of an int literal: digits, single underscores only between digits
WellFormedDigits(s) ==
    /\ s # <<>>
    /\ \A i \in 1..Len(s) : IsDigit(s[i]) \/ s[i] = "_"
    /\ IsDigit(s[1]) /\ IsDigit(s[Len(s)])
    /\ \A i \in 1..(Len(s) - 1) : ~(s[i] = "_" /\ s[i + 1] = "_")

\* int(part.strip()): [ok |-> FALSE] stands for ValueError
ParseInt(part) ==
    LET t == Strip(part)
        body == IF t # <<>> /\ Head(t) \in {"+", "-"} THEN Tail(t) ELSE t
        sign == IF t # <<>> /\ Head(t) = "-" THEN -1 ELSE 1
    IN  IF WellFormedDigits(body)
        THEN [ok |-> TRUE, value |-> sign * DigitsValue(body, 0)]
        ELSE [ok |-> FALSE, value |-> 0]

\* variant: >= where the code compares with >
Accepts_zero(n) == n >= 0

\* if qq_num > 0
Accepts(n) == n > 0

\* int() of a part when the ValueError is not caught: the exception escapes
Converted_uncaught(part) ==
    LET r == ParseInt(part) IN
    [ok |-> r.ok, value |-> r.value, raised |-> ~r.ok]

\* try: qq_num = int(part.strip()) ... except ValueError: the error is caught
Converted(part) ==
    LET r == ParseInt(part) IN
    [ok |-> r.ok, value |-> r.value, raised |-> FALSE]

\* the loop over parts: [list, warnings, raised]; raised when an exception
\* leaves the loop
RECURSIVE ParseParts(_)
ParseParts(parts) ==
    IF parts = <<>> THEN [list |-> <<>>, warnings |-> 0, raised |-> FALSE]
    ELSE LET r == Converted(Head(parts))
             rest == ParseParts(Tail(parts))
         IN  IF r.raised
             THEN [list |-> <<>>, warnings |-> 0, raised |-> TRUE]
             ELSE IF r.ok /\ Accepts(r.value)
             THEN [list |-> <<r.value>> \o rest.list, warnings |-> rest.warnings,
                   raised |-> rest.raised]
             ELSE [list |-> rest.list, warnings |-> rest.warnings + 1,
                   raised |-> rest.raised]

\* the separators replaced by spaces, then split()
Tokenize(s) == Split(ReplaceSeparators(s))

\* input_qq_list for the line typed at the prompt
InputQQList(typed) ==
    LET stripped == Strip(typed) IN
    IF stripped = <<>> THEN [list |-> <<>>, warnings |-> 0, raised |-> FALSE]
    ELSE ParseParts(Tokenize(stripped))

(***************************************************************************)
(* The inputs the model draws from.                                        *)
(***************************************************************************)
hash_c == <<" ", "#", " ", "c">>
assign == <<" ", "=", " ">>

Line_chat == <<"[">> \o chat \o <<"]", "\n">>
Line_chat_comment == <<"[">> \o chat \o <<"]">> \o hash_c \o <<"\n">>
Line_debug == <<"[", "d", "e", "b", "u", "g", "]", "\n">>
Line_voice_comment == <<"[", "v", "o", "i", "c", "e", "]">> \o hash_c \o <<"\n">>
Line_comment == <<"#", " ", "c", "\n">>
Line_blank == <<"\n">>
Line_group == group_list \o assign \o <<"[", "1", "]", "\n">>
Line_group_comment ==
    <<" ", " ">> \o group_list \o assign \o <<"[", "1", "]">> \o hash_c \o <<"\n">>
Line_private_tab == <<"\t">> \o private_list \o assign \o <<"[", "]", "\n">>
Line_private_open == private_list \o assign \o <<"[", "2", "]">>
Line_type == group_list \o <<"_", "t", "y", "p", "e">> \o assign \o <<"1", "\n">>

\* the candidate lines of a configuration file
LineSet ==
    { Line_chat, Line_chat_comment, Line_debug, Line_voice_comment,
      Line_comment, Line_blank, Line_group, Line_group_comment,
      Line_private_tab, Line_private_open, Line_type }

\* what readlines can return: only the last line may lack its newline
Files(n) ==
    { f \in UNION { [1..k -> LineSet] : k \in 0..n } :
        \A i \in 1..(Len(f) - 1) : EndsWith(f[i], "\n") }

\* the files the orchestrated runs start from
SampleFiles ==
    { <<Line_chat, Line_group, Line_private_tab>>,
      <<Line_comment, Line_chat_comment, Line_group_comment>>,
      <<Line_chat, Line_voice_comment, Line_group>>,
      <<Line_debug, Line_blank, Line_private_open>>,
      <<Line_chat, Line_group_comment>>,
      <<>> }

\* the characters the operator types
Alphabet == {"1", "0", "+", "-", "a", ",", "U+FF0C", " ", "\t", "U+3000"}

Strings(n) == UNION { [1..k -> Alphabet] : k \in 0..n }

\* the collected lists the pure patch is tried with
SampleLists == { <<>>, <<10, 20, 30>> }

\* the values the document holds for the two keys before collection
OldLists == { <<>>, <<7>> }

NoConfig == [group_list |-> <<>>, private_list |-> <<>>]

(***************************************************************************)
(* main: what the process reports for each outcome of configure_qq_adapter *)
(***************************************************************************)
\* variant: the else branch of main without sys.exit(1)
MainResult_no_exit(outcome) ==
    IF outcome = "KeyboardInterrupt" THEN [msg |-> "interrupted", status |-> 1]
    ELSE IF outcome = "True" THEN [msg |-> "success", status |-> 0]
    ELSE [msg |-> "failed", status |-> 0]

\* variant: KeyboardInterrupt handled like any other failure
MainResult_caught(outcome) ==
    IF outcome = "True" THEN [msg |-> "success", status |-> 0]
    ELSE [msg |-> "failed", status |-> 1]

\* the branches of main: normal return, sys.exit(1), except KeyboardInterrupt
MainResult(outcome) ==
    IF outcome = "True" THEN [msg |-> "success", status |-> 0]
    ELSE IF outcome = "False" THEN [msg |-> "failed", status |-> 1]
    ELSE [msg |-> "interrupted", status |-> 1]

(***************************************************************************)
(* The orchestrated run: main calling configure_qq_adapter.                *)
(***************************************************************************)
Order == <<"Start", "Locate", "Read", "CollectGroups", "CollectPrivate",
           "PatchWrite", "Done">>

\* configure_qq_adapter returns (or KeyboardInterrupt reaches main) and main ends
Finish(outcome, step) ==
    /\ pc' = IF outcome = "True" THEN "Done" ELSE "Failed"
    /\ msg' = MainResult(outcome).msg
    /\ exit_status' = MainResult(outcome).status
    /\ hist' = Append(hist, step)

Init ==
    /\ pc = "Start"
    /\ disk \in {Missing, Directory} \cup { FileOf(f) : f \in SampleFiles }
    /\ disk0 = disk
    /\ config = NoConfig
    /\ original_lines = <<>>
    /\ new_lines = <<>>
    /\ second_lines = <<>>
    /\ user_input = <<>>
    /\ qq_list = <<>>
    /\ warnings = 0
    /\ event = "none"
    /\ msg = "none"
    /\ exit_status = -1
    /\ hist = <<>>
    /\ reads = 0
    /\ prompts = 0
    /\ writes = 0

\* the banner and get_config_path
StartWizard ==
    /\ pc = "Start"
    /\ pc' = "Locate"
    /\ hist' = Append(hist, "start")
    /\ UNCHANGED <<disk, disk0, config, original_lines, new_lines, second_lines,
                   user_input, qq_list, warnings, event, msg, exit_status,
                   reads, prompts, writes>>

\* if not config_path.exists(): return False
LocateConfig ==
    /\ pc = "Locate"
    /\ IF Exists(disk)
       THEN /\ pc' = "Read"
            /\ hist' = Append(hist, "locate_ok")
            /\ UNCHANGED <<msg, exit_status>>
       ELSE Finish("False", "locate_missing")
    /\ UNCHANGED <<disk, disk0, config, original_lines, new_lines, second_lines,
                   user_input, qq_list, warnings, event, reads, prompts, writes>>

\* read_config_with_comments and the chat default; the parse of the document
\* is the toml library's, so its outcome and the old values are left open
ReadConfig ==
    /\ pc = "Read"
    /\ reads' = reads + 1
    /\ \/ /\ disk.kind = "file"
          /\ \E old \in OldLists :
                config' = [group_list |-> old, private_list |-> old]
          /\ original_lines' = ReadLines(disk.text)
          /\ pc' = "CollectGroups"
          /\ hist' = Append(hist, "read_ok")
          /\ UNCHANGED <<msg, exit_status>>
       \/ /\ Finish("False", "read_error")
          /\ UNCHANGED <<config, original_lines>>
    /\ UNCHANGED <<disk, disk0, new_lines, second_lines, user_input, qq_list,
                   warnings, event, prompts, writes>>

\* one call of input_qq_list from configure_qq_adapter, and the assignment of
\* its result to config['chat'][key]
Collect(at, next, key, ok_step, int_step, eof_step, err_step) ==
    /\ pc = at
    /\ prompts' = prompts + 1
    /\ \/ \E typed \in Strings(MaxTyped) :
            LET r == InputQQList(typed) IN
            /\ event' = "typed"
            /\ IF r.raised
               THEN /\ Finish("False", err_step)
                    /\ UNCHANGED config
               ELSE /\ config' = [config EXCEPT ![key] = r.list]
                    /\ pc' = next
                    /\ hist' = Append(hist, ok_step)
                    /\ UNCHANGED <<msg, exit_status>>
       \/ /\ event' = "interrupt"
          /\ Finish("KeyboardInterrupt", int_step)
          /\ UNCHANGED config
       \/ /\ event' = "eof"
          /\ Finish("False", eof_step)
          /\ UNCHANGED config
    /\ UNCHANGED <<disk, disk0, original_lines, new_lines, second_lines,
                   user_input, qq_list, warnings, reads, writes>>

CollectGroups ==
    Collect("CollectGroups", "CollectPrivate", "group_list",
            "groups_ok", "groups_interrupt", "groups_eof", "groups_error")

CollectPrivate ==
    Collect("CollectPrivate", "PatchWrite", "private_list",
            "private_ok", "private_interrupt", "private_eof", "private_error")

\* update_config_preserve_comments and the branch on its result; the open for
\* writing may fail, and writelines may fail after the file was truncated
PatchWrite ==
    /\ pc = "PatchWrite"
    /\ new_lines' = PatchLines(original_lines, config)
    /\ \/ /\ disk' = FileOf(new_lines')
          /\ writes' = writes + 1
          /\ Finish("True", "write_ok")
       \/ /\ UNCHANGED <<disk, writes>>
          /\ Finish("False", "write_error")
       \/ /\ \E k \in 0..(Len(new_lines') - 1) :
                disk' = FileOf(SubSeq(new_lines', 1, k))
          /\ writes' = writes + 1
          /\ Finish("False", "write_error")
    /\ UNCHANGED <<disk0, config, original_lines, second_lines, user_input,
                   qq_list, warnings, event, reads, prompts>>

Next ==
    \/ StartWizard
    \/ LocateConfig
    \/ ReadConfig
    \/ CollectGroups
    \/ CollectPrivate
    \/ PatchWrite

Spec == Init /\ [][Next]_vars

\* the script is sequential and every step it can take is taken; a prompt ends
\* with a typed line, an interrupt or the end of input
LiveSpec == Spec /\ WF_vars(Next)

(***************************************************************************)
(* The patcher on its own: every buffer of up to MaxLines lines, patched   *)
(* and patched again with the same lists.                                  *)
(***************************************************************************)
InitPatch ==
    /\ pc = "patch"
    /\ disk \in { FileOf(f) : f \in Files(MaxLines) }
    /\ disk0 = disk
    /\ config \in [group_list : SampleLists, private_list : SampleLists]
    /\ original_lines = ReadLines(disk.text)
    /\ new_lines = <<>>
    /\ second_lines = <<>>
    /\ user_input = <<>>
    /\ qq_list = <<>>
    /\ warnings = 0
    /\ event = "none"
    /\ msg = "none"
    /\ exit_status = -1
    /\ hist = <<>>
    /\ reads = 1
    /\ prompts = 2
    /\ writes = 0

\* update_config_preserve_comments on the buffer that was read, write succeeding
Patch ==
    /\ pc = "patch"
    /\ new_lines' = PatchLines(original_lines, config)
    /\ disk' = FileOf(new_lines')
    /\ writes' = writes + 1
    /\ pc' = "patched"
    /\ UNCHANGED <<disk0, config, original_lines, second_lines, user_input,
                   qq_list, warnings, event, msg, exit_status, hist, reads,
                   prompts>>

\* a second run with the same lists: the written file is read back and patched
Repatch ==
    /\ pc = "patched"
    /\ second_lines' = PatchLines(ReadLines(disk.text), config)
    /\ disk' = FileOf(second_lines')
    /\ writes' = writes + 1
    /\ pc' = "repatched"
    /\ UNCHANGED <<disk0, config, original_lines, new_lines, user_input,
                   qq_list, warnings, event, msg, exit_status, hist, reads,
                   prompts>>

NextPatch == Patch \/ Repatch

SpecPatch == InitPatch /\ [][NextPatch]_vars

(***************************************************************************)
(* The collector on its own: every typed line of up to MaxInput characters.*)
(***************************************************************************)
InitInput ==
    /\ pc = "prompt"
    /\ user_input \in Strings(MaxInput)
    /\ disk = Missing
    /\ disk0 = Missing
    /\ config = NoConfig
    /\ original_lines = <<>>
    /\ new_lines = <<>>
    /\ second_lines = <<>>
    /\ qq_list = <<>>
    /\ warnings = 0
    /\ event = "typed"
    /\ msg = "none"
    /\ exit_status = -1
    /\ hist = <<>>
    /\ reads = 0
    /\ prompts = 1
    /\ writes = 0

\* input_qq_list returns its list, or an exception leaves it
ParseInput ==
    /\ pc = "prompt"
    /\ LET r == InputQQList(user_input) IN
       /\ qq_list' = r.list
       /\ warnings' = r.warnings
       /\ pc' = IF r.raised THEN "raised" ELSE "parsed"
    /\ UNCHANGED <<disk, disk0, config, original_lines, new_lines, second_lines,
                   user_input, event, msg, exit_status, hist, reads, prompts,
                   writes>>

NextInput == ParseInput

SpecInput == InitInput /\ [][NextInput]_vars

(***************************************************************************)
(* What the configuration format means by a section and by a setting,      *)
(* stated on the text alone: the notions the properties below speak of.    *)
(***************************************************************************)
\* the text after the first c
RECURSIVE AfterFirst(_, _)
AfterFirst(s, c) ==
    IF s = <<>> THEN <<>>
    ELSE IF Head(s) = c THEN Tail(s) ELSE AfterFirst(Tail(s), c)

\* a table header: [name], optionally followed by a comment
IsHeader(line) ==
    LET s == Strip(line)
        rest == Strip(AfterFirst(s, "]"))
    IN  /\ StartsWith(s, "[")
        /\ Contains(s, "]")
        /\ ~StartsWith(Tail(s), "[")
        /\ (rest = <<>> \/ StartsWith(rest, "#"))

HeaderName(line) == Strip(SplitFirst(Tail(Strip(line)), "]"))

\* line i lies under the header [chat]
InChat(lines, i) ==
    \E j \in 1..(i - 1) :
        /\ IsHeader(lines[j])
        /\ HeaderName(lines[j]) = chat
        /\ \A k \in (j + 1)..(i - 1) : ~IsHeader(lines[k])

\* line is an assignment to key
Assigns(line, key) ==
    /\ ~StartsWith(Strip(line), "#")
    /\ ~IsHeader(line)
    /\ Contains(line, "=")
    /\ Strip(SplitFirst(line, "=")) = key

AssignsList(line) == Assigns(line, group_list) \/ Assigns(line, private_list)

\* line i is one of the two whitelist settings of the chat section
IsTarget(lines, i) == InChat(lines, i) /\ AssignsList(lines[i])

\* the leading whitespace of a line, as it stands
RECURSIVE LeadingWhitespace(_)
LeadingWhitespace(line) ==
    IF line # <<>> /\ Head(line) \in {" ", "\t"}
    THEN <<Head(line)>> \o LeadingWhitespace(Tail(line))
    ELSE <<>>

\* the comment a line carries: the text from its first '#', without the newline
RECURSIVE CommentOf(_)
CommentOf(line) ==
    IF line = <<>> THEN <<>>
    ELSE IF Head(line) = "#" THEN SelectSeq(line, LAMBDA c : c # "\n")
    ELSE CommentOf(Tail(line))

WithoutNewline(line) == SelectSeq(line, LAMBDA c : c # "\n")

(***************************************************************************)
(* Properties of the patcher, checked under SpecPatch.                     *)
(***************************************************************************)
\* C1: the patch writes as many lines as it was given, and every line that is
\* not a group_list/private_list assignment of the chat section is written
\* unchanged at its position.
C1_FrameAsClaimed ==
    pc = "patched" =>
        /\ Len(new_lines) = Len(original_lines)
        /\ ReadLines(disk.text) = new_lines
        /\ \A i \in 1..Len(original_lines) :
              ~IsTarget(original_lines, i) => new_lines[i] = original_lines[i]

\* C2: a group_list/private_list assignment under a header other than chat, or
\* before any header, is left unchanged.
C2_ScopingAsClaimed ==
    pc = "patched" =>
        \A i \in 1..Len(original_lines) :
            (AssignsList(original_lines[i]) /\ ~InChat(original_lines, i))
                => (i <= Len(new_lines) /\ new_lines[i] = original_lines[i])

\* C3: every group_list/private_list assignment of the chat section is
\* replaced by its indentation, the key, ' = ' and the collected list.
C3_ReplacementAsClaimed ==
    pc = "patched" =>
        \A i \in 1..Len(original_lines) :
            \A key \in {"group_list", "private_list"} :
                LET name == IF key = "group_list" THEN group_list ELSE private_list IN
                (InChat(original_lines, i) /\ Assigns(original_lines[i], name))
                    => /\ i <= Len(new_lines)
                       /\ WithoutNewline(new_lines[i]) =
                              LeadingWhitespace(original_lines[i]) \o name
                              \o <<" ", "=", " ">> \o ListRepr(config[key])

\* C5: patching the written file again with the same lists writes the same bytes.
C5_Idempotent ==
    pc = "repatched" =>
        /\ second_lines = new_lines
        /\ disk = FileOf(new_lines)

\* C5 witness: a second patch was made of a file the first patch had changed
C5_Witness ==
    /\ pc = "repatched"
    /\ new_lines # original_lines
    /\ \E i \in 1..Len(original_lines) : Indent(original_lines[i]) > 0
                                          /\ new_lines[i] # original_lines[i]

(***************************************************************************)
(* Properties of the collector, checked under SpecInput.                   *)
(***************************************************************************)
\* the tokens of s when exactly the characters of seps separate them
RECURSIVE TokensBetween(_, _, _)
TokensBetween(s, i, seps) ==
    IF i > Len(s) THEN <<>>
    ELSE IF s[i] \in seps THEN TokensBetween(s, i + 1, seps)
    ELSE LET e == CHOOSE e \in i..Len(s) :
                    /\ \A k \in i..e : s[k] \notin seps
                    /\ (e = Len(s) \/ s[e + 1] \in seps)
         IN  <<SubSeq(s, i, e)>> \o TokensBetween(s, e + 1, seps)

RECURSIVE Pow10(_)
Pow10(n) == IF n = 0 THEN 1 ELSE 10 * Pow10(n - 1)

\* the number a run of decimal digits denotes
RECURSIVE Decimal(_)
Decimal(ds) ==
    IF ds = <<>> THEN 0
    ELSE DigitValue(Head(ds)) * Pow10(Len(ds) - 1) + Decimal(Tail(ds))

\* the token, blanks around it aside, is a decimal literal of a positive integer
IsPositiveLiteral(tok) ==
    LET t == Strip(tok)
        ds == IF StartsWith(t, "+") THEN Tail(t) ELSE t
    IN  /\ ds # <<>>
        /\ \A k \in 1..Len(ds) : IsDigit(ds[k])
        /\ Decimal(ds) > 0

PositiveValue(tok) ==
    LET t == Strip(tok) IN Decimal(IF StartsWith(t, "+") THEN Tail(t) ELSE t)

RECURSIVE ValuesOf(_)
ValuesOf(toks) ==
    IF toks = <<>> THEN <<>>
    ELSE IF IsPositiveLiteral(Head(toks))
         THEN <<PositiveValue(Head(toks))>> \o ValuesOf(Tail(toks))
         ELSE ValuesOf(Tail(toks))

\* the list and the number of warnings when seps are the separators
Collected(typed, seps) ==
    LET toks == TokensBetween(Strip(typed), 1, seps) IN
    [list |-> ValuesOf(toks), warnings |-> Len(toks) - Len(ValuesOf(toks))]

\* C4 as claimed: the result is the positive integers among the tokens split
\* on ASCII comma, full-width comma, space and tab, in order, duplicates kept;
\* there are warnings exactly when a token is dropped; no exception escapes.
C4_TokensAsClaimed ==
    pc # "prompt" =>
        /\ pc = "parsed"
        /\ qq_list = Collected(user_input, separators).list
        /\ (warnings > 0 <=> Collected(user_input, separators).warnings > 0)

\* C4 amended: the tokens are split on ASCII comma, full-width comma and every
\* whitespace character (not only space and tab); the rest is as claimed.
C4_TokensAmended ==
    pc # "prompt" =>
        /\ pc = "parsed"
        /\ qq_list = Collected(user_input, {",", "U+FF0C"} \cup Whitespace).list
        /\ warnings = Collected(user_input, {",", "U+FF0C"} \cup Whitespace).warnings
        /\ (Strip(user_input) = <<>> => qq_list = <<>>)
        /\ \A k \in 1..Len(qq_list) : qq_list[k] > 0

\* C4 witness: a line whose two equal identifiers are parted by an ideographic
\* space and by none of the four listed separators
C4_Witness ==
    /\ pc = "parsed"
    /\ Contains(user_input, "U+3000")
    /\ \A k \in 1..Len(user_input) : user_input[k] \notin separators
    /\ qq_list = <<1, 1>>

(***************************************************************************)
(* Properties of the orchestrated run, checked under Spec and LiveSpec.    *)
(***************************************************************************)
Terminal == pc \in {"Done", "Failed"}

FullSuccess ==
    <<"start", "locate_ok", "read_ok", "groups_ok", "private_ok", "write_ok">>

Last(h) == IF h = <<>> THEN "none" ELSE h[Len(h)]

\* C6: an interrupt at either prompt ends the run in Failed with the
\* 'interrupted' message and a non-zero status, the file never written.
C6_Interrupt ==
    event = "interrupt" =>
        /\ pc = "Failed"
        /\ msg = "interrupted"
        /\ exit_status > 0
        /\ writes = 0
        /\ disk = disk0

\* C6 witness: the interrupt came at the second prompt, the first list collected
C6_Witness ==
    /\ event = "interrupt"
    /\ prompts = 2
    /\ config.group_list # <<>>
    /\ pc = "Failed"

\* C7: with no file at the path the run fails without reading, prompting or
\* writing, and no file is created.
C7_MissingFile ==
    disk0 = Missing =>
        /\ reads = 0
        /\ prompts = 0
        /\ writes = 0
        /\ disk = Missing
        /\ pc \in {"Start", "Locate", "Failed"}
        /\ (Terminal => exit_status > 0 /\ msg = "failed")

\* C7 witness: the run on a missing file has ended
C7_Witness ==
    /\ disk0 = Missing
    /\ pc = "Failed"
    /\ Last(hist) = "locate_missing"

\* C8: the exit status is 0 exactly when the file was located and read, both
\* lists were collected and the write succeeded; otherwise it is non-zero.
C8_ExitStatus ==
    /\ (~Terminal => exit_status = -1)
    /\ Terminal =>
        /\ exit_status \in {0, 1}
        /\ (exit_status = 0 <=> (pc = "Done" /\ hist = FullSuccess))
        /\ (Last(hist) \in {"locate_missing", "read_error", "write_error",
                            "groups_eof", "private_eof", "groups_interrupt",
                            "private_interrupt"} => exit_status > 0)

\* C8 witness: a run whose write failed after both collections
C8_Witness ==
    /\ pc = "Failed"
    /\ Last(hist) = "write_error"
    /\ Len(hist) = Len(FullSuccess)
    /\ exit_status = 1

\* C9: every comment of the input file, on a line of its own or at the end of
\* another line, stands unchanged in the file a successful run wrote.
C9_CommentsAsClaimed ==
    pc = "Done" =>
        LET before == ReadLines(disk0.text)
            after == ReadLines(disk.text)
        IN  /\ Len(after) = Len(before)
            /\ \A i \in 1..Len(before) : CommentOf(after[i]) = CommentOf(before[i])

Allowed ==
    { <<Order[i], Order[i + 1]>> : i \in 1..(Len(Order) - 1) }
    \cup { <<Order[i], "Failed">> : i \in 1..(Len(Order) - 1) }

OrderStep ==
    /\ <<pc, pc'>> \in Allowed
    /\ writes' <= 1
    /\ (writes' # writes \/ disk' # disk) =>
          /\ pc = "PatchWrite"
          /\ hist = SubSeq(FullSuccess, 1, 5)
    /\ (pc \in {"CollectGroups", "CollectPrivate"} /\ pc' = "Failed") =>
          event' \in {"interrupt", "eof"}

\* C10: the run moves along Start, Locate, Read, CollectGroups, CollectPrivate,
\* Patch&Write, Done, leaving the order only for Failed; it ends in Done or
\* Failed; the file is written at most once, in Patch&Write, after the read and
\* both collections; no typed line makes a collection step fail.
C10_Order == [][OrderStep]_vars /\ <>Terminal

\* C10 witness: a run that went through every step and wrote the file once
C10_Witness ==
    /\ pc = "Done"
    /\ writes = 1
    /\ hist = FullSuccess
    /\ config.group_list # <<>>

====
